---- MODULE Spec2Model ----
(***************************************************************************)
(* s6-config: compiles declarative service descriptions into the s6-rc     *)
(* source-directory layout.  The model follows src/main.rs: the check of   *)
(* --services-enabled, transitive_closure, and the generation loop of main *)
(* that applies the log / restart extensions and writes each service.      *)
(***************************************************************************)
EXTENDS Naturals, Sequences, FiniteSets, TLC

\* ------------------------------------------------------------------ bounds
MaxServices == 2     \* declared services in the input directory
MaxDeps     == 2     \* length of a dependencies list (closure specification)
MaxGen      == 3     \* cap on the number of generations the loop may start
MaxSet      == 2     \* optional parts set by the declarations of one input (main specification)

\* ------------------------------------------------------- Option<T> values
NoneV    == [some |-> FALSE]
Some(v)  == [some |-> TRUE, v |-> v]
IsSome(o) == o.some
IsNone(o) == ~o.some

\* ------------------------------------------------------------ data model
OneShot == "oneshot"
LongRun == "longrun"

Service(type_, up, run, finish, consumer_for, producer_for, pipeline_name, dependencies, extensions) ==
    [type_ |-> type_, up |-> up, run |-> run, finish |-> finish,
     consumer_for |-> consumer_for, producer_for |-> producer_for,
     pipeline_name |-> pipeline_name, dependencies |-> dependencies,
     extensions |-> extensions]

Extensions(log, restart) == [log |-> log, restart |-> restart]
Log(dir)                 == [dir |-> dir]
Restart(on_failure)      == [on_failure |-> on_failure]

\* --------------------------------------------------------- script bodies
OutputDir == "/out"

log_run(path) == "#!/bin/sh\nexec logutil-service " \o path \o "\n"

log_up(path, run_script) ==
    "#!/command/execlineb -P\npipeline -w { logutil-service " \o path
        \o " }\nfdmove -c 2 1\n" \o run_script \o "\n"

no_restart_on_failure == "#!/bin/sh\nexit 125\n"

ServiceDir(name) == OutputDir \o "/" \o name

\* ---------------------------------------------------------------- state
VARIABLES
    pc,               \* position in main
    args,             \* parsed command line: services_enabled, output_logterm_config
    declared,         \* the (name, service) pairs read from the input directory
    services,         \* Vec<(name, service, derived)>: rest of the current generation
    more_services,    \* derived services pushed during the current generation
    service_map,      \* HashMap name -> service handed to transitive_closure
    to_visit,         \* transitive_closure: the stack of names
    visited,          \* transitive_closure: the visited set
    res,              \* transitive_closure: the result vector
    services_enabled, \* the resolved enabled list
    service_logs,     \* HashMap name -> log directory
    files,            \* service directory name -> the artifacts written into it
    user_contents,    \* marker files in <output>/user/contents.d
    emitted,          \* the records written out, in order
    generation,       \* number of passes of the outer loop started
    logterm,          \* the logterm configuration written, if any
    error             \* the message of the error main returned, if any

vars == <<pc, args, declared, services, more_services, service_map, to_visit,
          visited, res, services_enabled, service_logs, files,
          user_contents, emitted, generation, logterm, error>>

closure_vars == <<to_visit, visited, res>>
output_vars  == <<service_logs, files, user_contents, emitted, logterm>>

\* ------------------------------------------------------------- utilities
Range(s) == {s[i] : i \in DOMAIN s}

SeqsUpTo(S, n) == UNION {[1..k -> S] : k \in 0..n}

DistinctSeqs(S, n) ==
    {s \in SeqsUpTo(S, n) : \A i, j \in DOMAIN s : i # j => s[i] # s[j]}

Perms(S) == {s \in [1..Cardinality(S) -> S] : Range(s) = S}

DeclaredNames == {declared[i].name : i \in DOMAIN declared}

DeclaredService(n) ==
    declared[CHOOSE i \in DOMAIN declared : declared[i].name = n].service

\* services.iter().map(|(name, service, _)| (name.clone(), service)).collect()
ServiceMapOf(svcs) ==
    [n \in {svcs[i].name : i \in DOMAIN svcs} |->
        svcs[CHOOSE i \in DOMAIN svcs :
                /\ svcs[i].name = n
                /\ \A j \in DOMAIN svcs : svcs[j].name = n => j <= i].service]

\* ------------------------------------------------------------ the inputs
Undeclared   == "ext"
NameUniverse == {"a", "b", "a-log"}
DepUniverse  == NameUniverse \cup {Undeclared}

PlainService(deps) ==
    Service(LongRun, NoneV, Some("run"), NoneV, NoneV, NoneV, NoneV, deps, NoneV)

StartState(decl, a) ==
    /\ pc = "check"
    /\ args = a
    /\ declared = decl
    /\ services = [i \in DOMAIN decl |->
                      [name |-> decl[i].name, service |-> decl[i].service,
                       derived |-> FALSE]]
    /\ more_services = <<>>
    /\ service_map = <<>>
    /\ to_visit = <<>>
    /\ visited = {}
    /\ res = <<>>
    /\ services_enabled = <<>>
    /\ service_logs = <<>>
    /\ files = <<>>
    /\ user_contents = {"stale"}
    /\ emitted = <<>>
    /\ generation = 0
    /\ logterm = NoneV
    /\ error = NoneV

\* --------------------------------------------- main: --services-enabled
\* lines 105-112, the first requested name that is not a key of the map
FirstMissingOnlyHead(map, enabled) ==
    IF IsSome(enabled) /\ enabled.v # <<>> /\ enabled.v[1] \notin DOMAIN map
      THEN Some(enabled.v[1])
      ELSE NoneV

FirstMissing(map, enabled) ==
    IF IsNone(enabled)
      THEN NoneV
      ELSE LET bad == {i \in DOMAIN enabled.v : enabled.v[i] \notin DOMAIN map}
           IN  IF bad = {}
                 THEN NoneV
                 ELSE Some(enabled.v[CHOOSE i \in bad : \A j \in bad : i <= j])

\* lines 102-113, every requested name is declared: call transitive_closure
CheckEnabled ==
    /\ pc = "check"
    /\ IsNone(FirstMissing(ServiceMapOf(services), args.services_enabled))
    /\ service_map' = ServiceMapOf(services)
    /\ pc' = "closure"
    /\ UNCHANGED <<args, declared, services, more_services, closure_vars,
                   services_enabled, output_vars, generation, error>>

\* lines 107-110, a requested name is not declared: bail
CheckEnabledFail ==
    /\ pc = "check"
    /\ LET missing == FirstMissing(ServiceMapOf(services), args.services_enabled)
       IN  /\ IsSome(missing)
           /\ error' = Some("service " \o missing.v
                            \o " not found but was specified in --services-enabled")
    /\ pc' = "failed"
    /\ UNCHANGED <<args, declared, services, more_services, service_map,
                   closure_vars, services_enabled, output_vars, generation>>


InitialFrontierOrEmpty(map, enabled) ==
    IF IsSome(enabled) THEN {enabled.v} ELSE {<<>>}

\* ---------------------------------------------------- transitive_closure
\* line 268, enabled.unwrap_or_else(|| services.keys().cloned().collect()):
\* the orders in which the frontier can start (a HashMap iterates in any order)
InitialFrontier(map, enabled) ==
    IF IsSome(enabled) THEN {enabled.v} ELSE Perms(DOMAIN map)

\* lines 266-268
ClosureInit ==
    /\ pc = "closure"
    /\ res' = <<>>
    /\ visited' = {}
    /\ to_visit' \in InitialFrontier(service_map, args.services_enabled)
    /\ pc' = "closure_loop"
    /\ UNCHANGED <<args, declared, services, more_services, service_map,
                   services_enabled, output_vars, generation, error>>

Pop(s) == SubSeq(s, 1, Len(s) - 1)
Top(s) == s[Len(s)]

ClosureSkipBreaks ==
    /\ pc = "closure_loop"
    /\ to_visit # <<>>
    /\ Top(to_visit) \in visited
    /\ to_visit' = <<>>
    /\ UNCHANGED <<pc, args, declared, services, more_services, service_map,
                   visited, res, services_enabled, output_vars, generation,
                   error>>

\* lines 269-272, the popped name was visited already
ClosureSkip ==
    /\ pc = "closure_loop"
    /\ to_visit # <<>>
    /\ Top(to_visit) \in visited
    /\ to_visit' = Pop(to_visit)
    /\ UNCHANGED <<pc, args, declared, services, more_services, service_map,
                   visited, res, services_enabled, output_vars, generation,
                   error>>

DepsToPushNothing(map, name) == <<>>

\* lines 275-279, the dependencies of a name that is a key of the map
DepsToPush(map, name) ==
    IF name \in DOMAIN map /\ IsSome(map[name].dependencies)
      THEN map[name].dependencies.v
      ELSE <<>>

\* lines 269, 273-279, the popped name is new
ClosureVisit ==
    /\ pc = "closure_loop"
    /\ to_visit # <<>>
    /\ Top(to_visit) \notin visited
    /\ visited' = visited \cup {Top(to_visit)}
    /\ res' = Append(res, Top(to_visit))
    /\ to_visit' = Pop(to_visit) \o DepsToPush(service_map, Top(to_visit))
    /\ UNCHANGED <<pc, args, declared, services, more_services, service_map,
                   services_enabled, output_vars, generation, error>>

\* lines 269, 281 and 113, the stack is empty: return res
ClosureReturn ==
    /\ pc = "closure_loop"
    /\ to_visit = <<>>
    /\ services_enabled' = res
    /\ pc' = "clear"
    /\ UNCHANGED <<args, declared, services, more_services, service_map,
                   closure_vars, output_vars, generation, error>>

NextResolve ==
    \/ CheckEnabled
    \/ CheckEnabledFail
    \/ ClosureInit
    \/ ClosureSkip
    \/ ClosureVisit
    \/ ClosureReturn

\* ------------------------------------------------- main: the extensions
Expanded(err, service, derived, log_dir) ==
    [error |-> err, service |-> service, derived |-> derived,
     log_dir |-> log_dir]

LoggerWithoutDependencies(name, service, dir) ==
    [name |-> name \o "-log",
     service |-> Service(LongRun, NoneV, Some(log_run(dir)), NoneV,
                         Some(name), NoneV, Some(name \o "-with-logs"),
                         NoneV, NoneV),
     derived |-> TRUE]

LoggerWithExtensions(name, service, dir) ==
    [name |-> name \o "-log",
     service |-> Service(LongRun, NoneV, Some(log_run(dir)), NoneV,
                         Some(name), NoneV, Some(name \o "-with-logs"),
                         service.dependencies, service.extensions),
     derived |-> TRUE]

\* lines 143-163, the logger synthesized for a longrun
Logger(name, service, dir) ==
    [name |-> name \o "-log",
     service |-> Service(LongRun, NoneV, Some(log_run(dir)), NoneV,
                         Some(name), NoneV, Some(name \o "-with-logs"),
                         service.dependencies, NoneV),
     derived |-> TRUE]

\* lines 130-166, extension log
ApplyLog(name, service) ==
    IF IsNone(service.extensions) \/ IsNone(service.extensions.v.log)
      THEN Expanded(NoneV, service, <<>>, NoneV)
      ELSE
        LET dir == service.extensions.v.log.v.dir IN
        IF service.type_ = OneShot
          THEN IF IsSome(service.up)
                 THEN Expanded(Some("extension log would clobber up for oneshots"),
                               service, <<>>, Some(dir))
                 ELSE Expanded(NoneV,
                               [service EXCEPT !.up =
                                   Some(log_up(dir, ServiceDir(name) \o "/run"))],
                               <<>>, Some(dir))
          ELSE IF IsSome(service.producer_for)
                 THEN Expanded(Some("extension log would clobber producer-for"),
                               service, <<>>, Some(dir))
                 ELSE Expanded(NoneV,
                               [service EXCEPT !.producer_for =
                                   Some(name \o "-log")],
                               <<Logger(name, service, dir)>>, Some(dir))

ApplyRestartClobbers(service) ==
    IF IsNone(service.extensions) \/ IsNone(service.extensions.v.restart)
      THEN Expanded(NoneV, service, <<>>, NoneV)
      ELSE
        IF ~service.extensions.v.restart.v.on_failure
          THEN Expanded(NoneV,
                        [service EXCEPT !.finish = Some(no_restart_on_failure)],
                        <<>>, NoneV)
          ELSE Expanded(NoneV, service, <<>>, NoneV)

\* lines 167-174, extension restart
ApplyRestart(service) ==
    IF IsNone(service.extensions) \/ IsNone(service.extensions.v.restart)
      THEN Expanded(NoneV, service, <<>>, NoneV)
      ELSE
        IF ~service.extensions.v.restart.v.on_failure
          THEN IF IsSome(service.finish)
                 THEN Expanded(Some("extension restart would clobber finish"),
                               service, <<>>, NoneV)
                 ELSE Expanded(NoneV,
                               [service EXCEPT !.finish =
                                   Some(no_restart_on_failure)],
                               <<>>, NoneV)
          ELSE Expanded(NoneV, service, <<>>, NoneV)

\* lines 129-175, log first, then restart
Expand(name, service) ==
    LET l == ApplyLog(name, service) IN
    IF IsSome(l.error)
      THEN l
      ELSE LET r == ApplyRestart(l.service) IN
           Expanded(r.error, r.service, l.derived, l.log_dir)

BundleMarkerAnyTail(name, service) ==
    IF IsNone(service.consumer_for) /\ IsNone(service.producer_for)
      THEN Some(name)
      ELSE IF IsSome(service.pipeline_name)
             THEN Some(service.pipeline_name.v)
             ELSE NoneV

\* lines 206-216, the marker written to user/contents.d, if any
BundleMarker(name, service) ==
    IF IsNone(service.consumer_for) /\ IsNone(service.producer_for)
      THEN Some(name)
      ELSE IF IsNone(service.producer_for)
             THEN IF IsSome(service.pipeline_name)
                    THEN Some(service.pipeline_name.v)
                    ELSE NoneV
             ELSE NoneV

\* ------------------------------------------------ main: the output tree
\* line 127, a service directory just created
EmptyDir ==
    [type |-> NoneV, up |-> NoneV, run |-> NoneV, finish |-> NoneV,
     consumer_for |-> NoneV, producer_for |-> NoneV, pipeline_name |-> NoneV,
     dependencies_d |-> NoneV]

Keep(new, old) == IF IsSome(new) THEN new ELSE old

\* lines 176-205, fs::write replaces a file, and a file is written only for
\* a field that is set
WriteService(dir, service) ==
    [type |-> Some(service.type_),
     up |-> Keep(service.up, dir.up),
     run |-> Keep(service.run, dir.run),
     finish |-> Keep(service.finish, dir.finish),
     consumer_for |-> Keep(service.consumer_for, dir.consumer_for),
     producer_for |-> Keep(service.producer_for, dir.producer_for),
     pipeline_name |-> Keep(service.pipeline_name, dir.pipeline_name),
     dependencies_d |->
        IF IsSome(service.dependencies)
          THEN Some(Range(service.dependencies.v)
                    \cup (IF IsSome(dir.dependencies_d)
                            THEN dir.dependencies_d.v ELSE {}))
          ELSE dir.dependencies_d]

DirOf(fs, name) == IF name \in DOMAIN fs THEN fs[name] ELSE EmptyDir

\* line 127, fs::create_dir_all(&service_dir)
CreateDir(fs, name) ==
    [n \in DOMAIN fs \cup {name} |-> DirOf(fs, n)]

PutFiles(fs, name, service) ==
    [n \in DOMAIN fs \cup {name} |->
        IF n = name THEN WriteService(DirOf(fs, name), service) ELSE fs[n]]

\* line 131, service_logs.insert
InsertLog(logs, name, log_dir) ==
    IF IsSome(log_dir)
      THEN [n \in DOMAIN logs \cup {name} |->
               IF n = name THEN log_dir.v ELSE logs[n]]
      ELSE logs

\* lines 284-293, one line per entry of service_logs
logterm_config(logs) ==
    {"  " \o n \o ": " \o logs[n] \o "/current\n" : n \in DOMAIN logs}

\* ------------------------------------------- main: the generation loop
\* lines 115-118, user/contents.d is removed and created anew, and the
\* loop is entered
ClearContents ==
    /\ pc = "clear"
    /\ user_contents' = {}
    /\ service_logs' = <<>>
    /\ generation' = 1
    /\ more_services' = <<>>
    /\ pc' = "loop"
    /\ UNCHANGED <<args, declared, services, service_map, closure_vars,
                   services_enabled, files, emitted, logterm, error>>

PassesAlways(entry) == TRUE

\* line 122, the service is enabled or derived
Passes(entry) == entry.name \in Range(services_enabled) \/ entry.derived

\* lines 121-125, the service is neither enabled nor derived
ProcessSkip ==
    /\ pc = "loop"
    /\ services # <<>>
    /\ ~Passes(Head(services))
    /\ services' = Tail(services)
    /\ UNCHANGED <<pc, args, declared, more_services, service_map,
                   closure_vars, services_enabled, output_vars, generation,
                   error>>

\* lines 121-216, the service is expanded and written out
ProcessEmit ==
    /\ pc = "loop"
    /\ services # <<>>
    /\ Passes(Head(services))
    /\ LET name == Head(services).name
           x    == Expand(name, Head(services).service)
       IN  /\ IsNone(x.error)
           /\ service_logs' = InsertLog(service_logs, name, x.log_dir)
           /\ more_services' = more_services \o x.derived
           /\ files' = PutFiles(files, name, x.service)
           /\ user_contents' =
                 IF IsSome(BundleMarker(name, x.service))
                   THEN user_contents \cup {BundleMarker(name, x.service).v}
                   ELSE user_contents
           /\ emitted' = Append(emitted,
                 [name |-> name, derived |-> Head(services).derived,
                  service |-> x.service,
                  marker |-> BundleMarker(name, x.service),
                  generation |-> generation])
    /\ services' = Tail(services)
    /\ UNCHANGED <<pc, args, declared, service_map, closure_vars,
                   services_enabled, generation, logterm, error>>

\* lines 121-175, an extension would clobber a declared field: bail
ProcessBail ==
    /\ pc = "loop"
    /\ services # <<>>
    /\ Passes(Head(services))
    /\ LET name == Head(services).name
           x    == Expand(name, Head(services).service)
       IN  /\ IsSome(x.error)
           /\ service_logs' = InsertLog(service_logs, name, x.log_dir)
           /\ more_services' = more_services \o x.derived
           /\ files' = CreateDir(files, name)
           /\ error' = x.error
    /\ services' = Tail(services)
    /\ pc' = "failed"
    /\ UNCHANGED <<args, declared, service_map, closure_vars,
                   services_enabled, user_contents, emitted, generation,
                   logterm>>

\* lines 218-221 and 120, the derived services are the next generation
NextGeneration ==
    /\ pc = "loop"
    /\ services = <<>>
    /\ more_services # <<>>
    /\ generation < MaxGen
    /\ services' = more_services
    /\ more_services' = <<>>
    /\ generation' = generation + 1
    /\ UNCHANGED <<pc, args, declared, service_map, closure_vars,
                   services_enabled, output_vars, error>>

\* lines 218-219 and 223-228, no derived service: leave the loop, write the
\* logterm configuration when asked to, return Ok
Finish ==
    /\ pc = "loop"
    /\ services = <<>>
    /\ more_services = <<>>
    /\ logterm' = IF args.output_logterm_config
                    THEN Some(logterm_config(service_logs))
                    ELSE logterm
    /\ pc' = "done"
    /\ UNCHANGED <<args, declared, services, more_services, service_map,
                   closure_vars, services_enabled, service_logs, files,
                   user_contents, emitted, generation, error>>

Next ==
    \/ CheckEnabled
    \/ CheckEnabledFail
    \/ ClosureInit
    \/ ClosureSkip
    \/ ClosureVisit
    \/ ClosureReturn
    \/ ClearContents
    \/ ProcessSkip
    \/ ProcessEmit
    \/ ProcessBail
    \/ NextGeneration
    \/ Finish

\* ------------------------------------------------ the main specification
\* the optional parts a declaration may set
Features ==
    {"up", "finish", "consumer-for", "producer-for", "pipeline-name",
     "dependencies", "log", "restart", "restart-on-failure"}

RECURSIVE SubsetsUpTo(_, _)
SubsetsUpTo(S, n) ==
    IF n = 0 \/ S = {}
      THEN {{}}
      ELSE LET x == CHOOSE y \in S : TRUE IN
           SubsetsUpTo(S \ {x}, n) \cup
           {T \cup {x} : T \in SubsetsUpTo(S \ {x}, n - 1)}

Opt(F, f, v) == IF f \in F THEN Some(v) ELSE NoneV

\* the declarations of these names are oneshots, the others longruns
OneShotNames == {"b"}

Declaration(name, F) ==
    Service(IF name \in OneShotNames THEN OneShot ELSE LongRun,
            Opt(F, "up", "up script"),
            IF name \in OneShotNames /\ "log" \notin F
              THEN NoneV ELSE Some("run script"),
            Opt(F, "finish", "finish script"),
            Opt(F, "consumer-for", "source"),
            Opt(F, "producer-for", "sink"),
            Opt(F, "pipeline-name", "a-with-logs"),
            Opt(F, "dependencies", <<"b">>),
            IF F \cap {"log", "restart", "restart-on-failure"} = {}
              THEN NoneV
              ELSE Some(Extensions(
                     Opt(F, "log", Log("/var/log")),
                     IF "restart" \in F THEN Some(Restart(FALSE))
                     ELSE IF "restart-on-failure" \in F THEN Some(Restart(TRUE))
                     ELSE NoneV)))

Requests ==
    {NoneV, Some(<<"a">>), Some(<<"a", Undeclared>>)}

SetToSeq(S) == CHOOSE s \in Perms(S) : TRUE

\* the inputs whose declarations come in one of the orders nameSeqs and set
\* at most budget optional parts between them
InitWith(nameSeqs, budget) ==
    \E names \in nameSeqs :
    \E F \in SubsetsUpTo((DOMAIN names) \X Features, budget) :
    \E req \in Requests :
        /\ \A i \in DOMAIN names :
              ~(<<i, "restart">> \in F /\ <<i, "restart-on-failure">> \in F)
        /\ StartState([i \in DOMAIN names |->
                          [name |-> names[i],
                           service |->
                              Declaration(names[i],
                                          {f \in Features : <<i, f>> \in F})]],
                      [services_enabled |-> req, output_logterm_config |-> TRUE])

\* read_dir yields the files in any order
AnyOrder == DistinctSeqs(NameUniverse, MaxServices)

OneOrder ==
    {SetToSeq(N) : N \in {M \in SUBSET NameUniverse : Cardinality(M) <= MaxServices}}

Init ==
    \/ InitWith(AnyOrder, MaxSet)
    \/ InitWith(OneOrder, MaxSet + 1)

InitLive == InitWith(OneOrder, MaxSet)

Spec     == Init /\ [][Next]_vars
LiveSpec == InitLive /\ [][Next]_vars /\ WF_vars(Next)

\* ------------------------------------------- the resolver specification
DepLists ==
    {NoneV} \cup {Some(SetToSeq(D)) :
                    D \in {E \in SUBSET DepUniverse : Cardinality(E) <= MaxDeps}}

RequestLists ==
    {NoneV} \cup {Some(r) : r \in SeqsUpTo({"a", "b", Undeclared}, 2) \ {<<>>}}

NoArgs(req) == [services_enabled |-> req, output_logterm_config |-> FALSE]

InitResolve ==
    \E N \in {M \in SUBSET NameUniverse : Cardinality(M) <= MaxServices} :
    \E deps \in [1..Cardinality(N) -> DepLists] :
    \E req \in RequestLists :
        StartState([i \in 1..Cardinality(N) |->
                       [name |-> SetToSeq(N)[i],
                        service |-> PlainService(deps[i])]],
                   NoArgs(req))

SpecResolve == InitResolve /\ [][NextResolve]_vars
LiveResolve == SpecResolve /\ WF_vars(NextResolve)

\* ------------------------------------------------- resolver: definitions
Resolved == pc \notin {"check", "closure", "closure_loop", "failed"}

DepNames(n) ==
    IF IsSome(DeclaredService(n).dependencies)
      THEN Range(DeclaredService(n).dependencies.v)
      ELSE {}

AllDepNames == UNION {DepNames(n) : n \in DeclaredNames}

RECURSIVE ReachFrom(_)
ReachFrom(S) ==
    LET step == S \cup UNION {DepNames(n) : n \in S \cap DeclaredNames}
    IN  IF step = S THEN S ELSE ReachFrom(step)

Requested ==
    IF IsSome(args.services_enabled)
      THEN Range(args.services_enabled.v)
      ELSE DeclaredNames

EnabledSet == Range(services_enabled)

\* -------------------------------------------------------------- claims
\* C1 (as stated): with no requested list, the resolved list holds exactly
\* the declared service names, whatever the dependency graph.
C1_ExactlyDeclared ==
    (Resolved /\ IsNone(args.services_enabled))
        => EnabledSet = DeclaredNames

\* C1 (amended): with no requested list, the resolved list holds every
\* declared name, and besides them exactly the names that declared services
\* list as dependencies; a name that is neither is never in it.
C1_DeclaredAndTheirDeps ==
    (Resolved /\ IsNone(args.services_enabled))
        => EnabledSet = DeclaredNames \cup AllDepNames

C1_Witness ==
    /\ Resolved
    /\ IsNone(args.services_enabled)
    /\ Cardinality(DeclaredNames) = 2
    /\ Undeclared \in AllDepNames
    /\ Undeclared \in EnabledSet

\* C2: when every requested name is declared, the resolved list holds every
\* requested name, and with a name it holds each declared service that the
\* name's record lists as a dependency.
C2_RequestedAndClosed ==
    (Resolved /\ IsSome(args.services_enabled))
        => /\ Range(args.services_enabled.v) \subseteq EnabledSet
           /\ \A n \in EnabledSet \cap DeclaredNames :
                 \A d \in DepNames(n) \cap DeclaredNames : d \in EnabledSet

C2_Witness ==
    /\ Resolved
    /\ IsSome(args.services_enabled)
    /\ Len(args.services_enabled.v) = 1
    /\ \E n \in EnabledSet \cap DeclaredNames :
          \E d \in DepNames(n) \cap DeclaredNames :
             /\ d # n
             /\ d \notin Range(args.services_enabled.v)
             /\ n \in DepNames(d)

\* C8: resolution always comes to an end, never with an error of its own,
\* and the list it returns holds exactly the names that dependency edges
\* reach from the names it started with; cycles and self-dependencies
\* included.
C8_TerminatesWithReachable ==
    /\ <>(pc \in {"clear", "failed"})
    /\ [](pc = "failed" => to_visit = <<>> /\ res = <<>>)
    /\ [](Resolved => /\ EnabledSet = ReachFrom(Requested)
                      /\ Len(services_enabled) = Cardinality(EnabledSet))

C8_Witness ==
    /\ Resolved
    /\ IsSome(args.services_enabled)
    /\ \E n \in DeclaredNames : n \in DepNames(n)
    /\ \E n \in DeclaredNames : \E d \in DeclaredNames :
          d # n /\ d \in DepNames(n) /\ n \in DepNames(d)
    /\ EnabledSet # Requested

\* ---------------------------------------------------- driver: definitions
HasExt(service)  == IsSome(service.extensions)
HasLog(service)  == HasExt(service) /\ IsSome(service.extensions.v.log)
NoRestart(service) ==
    /\ HasExt(service)
    /\ IsSome(service.extensions.v.restart)
    /\ ~service.extensions.v.restart.v.on_failure

LogDir(service) == service.extensions.v.log.v.dir

\* an extension of the declaration would overwrite a field it sets
Conflict(service) ==
    \/ HasLog(service) /\ service.type_ = OneShot /\ IsSome(service.up)
    \/ HasLog(service) /\ service.type_ = LongRun /\ IsSome(service.producer_for)
    \/ NoRestart(service) /\ IsSome(service.finish)

\* every record the run holds or has written: written, waiting in this
\* generation, or pushed for the next one
Records ==
    [i \in DOMAIN emitted |->
        [name |-> emitted[i].name, service |-> emitted[i].service,
         derived |-> emitted[i].derived]]
    \o services \o more_services

DerivedFrom(n) ==
    {i \in DOMAIN Records :
        Records[i].derived /\ Records[i].service.consumer_for = Some(n)}

EmittedDeclared == {i \in DOMAIN emitted : ~emitted[i].derived}
EmittedDerived  == {i \in DOMAIN emitted : emitted[i].derived}

UnknownRequested ==
    /\ IsSome(args.services_enabled)
    /\ \E n \in Range(args.services_enabled.v) : n \notin DeclaredNames

Untouched ==
    /\ emitted = <<>>
    /\ files = <<>>
    /\ service_logs = <<>>
    /\ more_services = <<>>
    /\ user_contents = {"stale"}
    /\ generation = 0
    /\ logterm = NoneV

\* C3: a requested name that is not declared makes the run fail with the
\* unknown-service error before the traversal starts and before anything is
\* expanded or written; user/contents.d keeps what it held.
C3_UnknownFailsFirst ==
    UnknownRequested =>
        /\ pc \in {"check", "failed"}
        /\ to_visit = <<>> /\ visited = {} /\ res = <<>>
        /\ services_enabled = <<>>
        /\ Untouched
        /\ Len(services) = Len(declared)
        /\ pc = "failed" =>
              \E n \in Range(args.services_enabled.v) \ DeclaredNames :
                 error = Some("service " \o n
                        \o " not found but was specified in --services-enabled")

C3_Witness ==
    /\ pc = "failed"
    /\ UnknownRequested
    /\ args.services_enabled.v[1] \in DeclaredNames
    /\ \E i \in DOMAIN declared : HasLog(declared[i].service)

\* C4: expansion never replaces a field the declaration set.  A record whose
\* extensions would do so is never written and the run that reaches it
\* fails; every written record keeps the declared up, run, finish and
\* producer-for.  A oneshot with log and no up is written with up set to the
\* wrapper and has no derived record.
C4_NoClobber ==
    /\ \A i \in EmittedDeclared :
        LET e == emitted[i]
            d == DeclaredService(e.name)
        IN  /\ ~Conflict(d)
            /\ IsSome(d.up) => e.service.up = d.up
            /\ IsSome(d.run) => e.service.run = d.run
            /\ IsSome(d.finish) => e.service.finish = d.finish
            /\ IsSome(d.producer_for) => e.service.producer_for = d.producer_for
            /\ (HasLog(d) /\ d.type_ = OneShot) =>
                  /\ e.service.up = Some(
                        "#!/command/execlineb -P\npipeline -w { logutil-service "
                        \o LogDir(d) \o " }\nfdmove -c 2 1\n"
                        \o "/out/" \o e.name \o "/run\n")
                  /\ e.service.producer_for = d.producer_for
                  /\ e.service.run = d.run
                  /\ DerivedFrom(e.name) = {}
    /\ pc = "done" =>
          \A n \in DeclaredNames \cap EnabledSet : ~Conflict(DeclaredService(n))
    /\ (pc = "failed" /\ ~UnknownRequested) =>
          /\ services_enabled # <<>>
          /\ error \in {Some("extension log would clobber up for oneshots"),
                        Some("extension log would clobber producer-for"),
                        Some("extension restart would clobber finish")}
          /\ logterm = NoneV

C4_Witness ==
    /\ pc = "done"
    /\ \E i \in EmittedDeclared :
          LET d == DeclaredService(emitted[i].name) IN
          /\ HasLog(d) /\ d.type_ = OneShot /\ IsNone(d.up)
          /\ IsSome(d.finish)
          /\ IsSome(emitted[i].service.up)

C4_WitnessAbort ==
    /\ pc = "failed"
    /\ error = Some("extension restart would clobber finish")
    /\ \E i \in DOMAIN declared :
          HasLog(declared[i].service) /\ NoRestart(declared[i].service)

C6_LongRunLog ==
    \A i \in EmittedDeclared :
        LET e == emitted[i]
            d == DeclaredService(e.name)
        IN  (HasLog(d) /\ d.type_ = LongRun) =>
              /\ IsNone(d.producer_for)
              /\ e.service.producer_for = Some(e.name \o "-log")
              /\ e.service.up = d.up
              /\ e.service.run = d.run
              /\ e.service.type_ = LongRun
              /\ e.service.dependencies = d.dependencies
              /\ e.service.consumer_for = d.consumer_for
              /\ e.service.finish =
                    (IF NoRestart(d) THEN Some("#!/bin/sh\nexit 125\n")
                                     ELSE d.finish)
              /\ NoRestart(d) => IsNone(d.finish)
              /\ Cardinality(DerivedFrom(e.name)) = 1
              /\ \A j \in DerivedFrom(e.name) :
                    /\ Records[j].name = e.name \o "-log"
                    /\ Records[j].service =
                          [type_ |-> LongRun,
                           up |-> NoneV,
                           run |-> Some("#!/bin/sh\nexec logutil-service "
                                        \o LogDir(d) \o "\n"),
                           finish |-> NoneV,
                           consumer_for |-> Some(e.name),
                           producer_for |-> NoneV,
                           pipeline_name |-> Some(e.name \o "-with-logs"),
                           dependencies |-> d.dependencies,
                           extensions |-> NoneV]
              /\ Cardinality({j \in DOMAIN Records :
                                 /\ Records[j].derived
                                 /\ Records[j].name = e.name \o "-log"}) = 1

C6_Witness ==
    /\ pc = "done"
    /\ \E i \in EmittedDeclared :
          LET d == DeclaredService(emitted[i].name) IN
          /\ HasLog(d) /\ d.type_ = LongRun /\ NoRestart(d)
          /\ \E j \in EmittedDerived :
                emitted[j].name = emitted[i].name \o "-log"

\* C7: the marker of a written record follows from its fields as they are
\* after its extensions: own name when consumer-for and producer-for are
\* both unset; the pipeline name when only consumer-for is set and a
\* pipeline name is set; none otherwise.  So a longrun n with log writes no
\* marker, and its logger "n-log" writes the marker "n-with-logs".
C7_BundleMembership ==
    /\ \A i \in DOMAIN emitted :
        LET e == emitted[i]
            r == e.service
        IN  /\ (IsNone(r.consumer_for) /\ IsNone(r.producer_for))
                  => e.marker = Some(e.name)
            /\ (IsNone(r.producer_for) /\ IsSome(r.consumer_for)
                  /\ IsSome(r.pipeline_name))
                  => e.marker = Some(r.pipeline_name.v)
            /\ (IsNone(r.producer_for) /\ IsSome(r.consumer_for)
                  /\ IsNone(r.pipeline_name))
                  => e.marker = NoneV
            /\ IsSome(r.producer_for) => e.marker = NoneV
            /\ (~e.derived /\ HasLog(DeclaredService(e.name))
                  /\ r.type_ = LongRun) => e.marker = NoneV
            /\ (e.derived /\ IsSome(r.consumer_for))
                  => e.marker = Some(r.consumer_for.v \o "-with-logs")
    /\ pc \in {"loop", "done"} =>
          user_contents = {emitted[i].marker.v :
                             i \in {j \in DOMAIN emitted :
                                       IsSome(emitted[j].marker)}}
    /\ pc = "done" =>
          \A i \in EmittedDeclared :
             (HasLog(emitted[i].service) /\ emitted[i].service.type_ = LongRun)
                => /\ emitted[i].name \o "-with-logs" \in user_contents
                   /\ Cardinality({j \in EmittedDerived :
                         emitted[j].service.consumer_for
                            = Some(emitted[i].name)}) = 1

C7_Witness ==
    /\ pc = "done"
    /\ user_contents = {"a-with-logs", "b"}
    /\ \E i \in EmittedDeclared :
          /\ emitted[i].name = "a"
          /\ HasLog(emitted[i].service)
          /\ IsNone(DeclaredService("a").producer_for)
    /\ \E i \in EmittedDeclared :
          /\ emitted[i].name = "b"
          /\ IsNone(emitted[i].service.consumer_for)

C7_WitnessWarn ==
    /\ pc = "done"
    /\ \E i \in EmittedDeclared :
          /\ IsSome(emitted[i].service.consumer_for)
          /\ IsNone(emitted[i].service.pipeline_name)
          /\ IsNone(emitted[i].service.producer_for)
          /\ emitted[i].name \notin user_contents

\* C9: the loop always comes to an end, and it ends with success exactly
\* when a generation has pushed no derived service.  The derived services of
\* a generation are the records of the next one, each written once there,
\* and they push nothing: no run starts a third generation.
C9_DriverStops ==
    /\ <>(pc \in {"done", "failed"})
    /\ [](generation <= 2)
    /\ [](generation = 2 => more_services = <<>>)
    /\ [][(pc = "loop" /\ pc' = "done")
             => (services = <<>> /\ more_services = <<>>)]_vars
    /\ [][(pc = "loop" /\ services = <<>> /\ more_services # <<>>)
             => (pc' = "loop" /\ generation' = generation + 1
                 /\ services' = more_services)]_vars
    /\ [](\A i \in DOMAIN emitted :
             emitted[i].generation = (IF emitted[i].derived THEN 2 ELSE 1))
    /\ [](pc = "done" =>
             Cardinality(EmittedDerived) =
                Cardinality({i \in EmittedDeclared :
                    /\ HasLog(emitted[i].service)
                    /\ emitted[i].service.type_ = LongRun}))
    /\ [](pc = "done" =>
             \A i \in EmittedDeclared :
                (HasLog(emitted[i].service)
                    /\ emitted[i].service.type_ = LongRun)
                => Cardinality({j \in EmittedDerived :
                      /\ emitted[j].service.consumer_for
                            = Some(emitted[i].name)
                      /\ emitted[j].generation = 2}) = 1)

C9_Witness ==
    /\ pc = "done"
    /\ generation = 2
    /\ Cardinality(EmittedDerived) = 2

\* C10 (as stated): the names of the records written in one run are
\* pairwise distinct.
C10_DistinctNames ==
    \A i, j \in DOMAIN emitted :
        i # j => emitted[i].name # emitted[j].name
====
